---- MODULE Spec2Model ----
(***************************************************************************)
(* Model of the two variants of useSupabaseService:                        *)
(*   variant "A" : src/src/services/api/supabaseService.ts                 *)
(*   variant "B" : src/unnamed/part_000                                    *)
(* Every operation is an async function; it is modelled as a Call action   *)
(* (the code up to the first await) followed by one Resolve action per     *)
(* awaited backend call (the code from that await to the next await or to  *)
(* the return).  The backend collaborators answer nondeterministically.    *)
(***************************************************************************)
EXTENDS Integers, Sequences, FiniteSets, TLC

(* ---------------- bounds ---------------- *)
MaxPlans == 7      \* rows of the pricing_plans table
MaxLimit == 3      \* largest explicit limit a caller passes
MaxRel   == 2      \* largest joined pricing_plans array of a profile row

(* ---------------- program constants ---------------- *)
DefaultLimit == 1000

(* ---------------- JS values ---------------- *)
\* An optional argument is a set with at most one element: {} is undefined.
Null      == [kind |-> "null"]
Undefined == [kind |-> "undefined"]
Arr(s)    == [kind |-> "array", items |-> s]
Obj(r)    == [kind |-> "object", fields |-> r]
Err(m)    == [kind |-> "error", message |-> m]

Has(row, f) == f \in DOMAIN row

\* String(v) of a value that is already a string
String(v) == v

Min(a, b) == IF a < b THEN a ELSE b

Take(s, n) == SubSeq(s, 1, Min(n, Len(s)))

(* ---------------- the pricing_plans table ---------------- *)
\* names in alphabetical order: the rank of a name is its index
Names == <<"alpha", "bravo", "charlie", "delta", "echo", "foxtrot",
           "golf", "hotel", "india", "juliet">>

NameRank(n) == CHOOSE i \in 1..Len(Names) : Names[i] = n

PlanIds == 1..MaxPlans

\* Row i of the table.  Prices are pairwise different and are not in the
\* order of the names; two plans out of three are featured.
PlanRow(i) ==
  [ id               |-> Names[i] \o "-id",
    name             |-> Names[i],
    slug             |-> Names[i] \o "-slug",
    description      |-> IF i % 2 = 0 THEN "" ELSE "text",
    cta              |-> "Buy",
    most_popular     |-> (i = 1),
    is_featured      |-> (i % 3 # 0),
    pricing_features |-> <<>>,
    price_monthly    |-> ((i * 5) % 11) * 10,
    price_yearly     |-> ((i * 5) % 11) * 100 ]

Project(row, cols) == [f \in cols |-> row[f]]

OrderKey(i, col) ==
  IF col = "name" THEN NameRank(PlanRow(i).name) ELSE PlanRow(i).price_monthly

RECURSIVE SortBy(_, _)
\* the ids of S in ascending order of column col
SortBy(S, col) ==
  IF S = {} THEN <<>>
  ELSE LET m == CHOOSE i \in S : \A j \in S : OrderKey(i, col) <= OrderKey(j, col)
       IN  <<m>> \o SortBy(S \ {m}, col)

\* What the backend computes for the query q over the table rows ids:
\* .eq('is_featured', v), .order(col, ascending), .limit(n), select(cols)
RunPlansQuery(ids, q) ==
  LET matching == {i \in ids : q.filter = {} \/ PlanRow(i).is_featured \in q.filter}
      sorted   == SortBy(matching, q.order)
      taken    == Take(sorted, q.limit)
  IN  [k \in 1..Len(taken) |-> Project(PlanRow(taken[k]), q.select)]

(* ---------------- state ---------------- *)
VARIABLES
  variant,        \* "A" or "B": which source file is in force
  db,             \* ids of the rows the pricing_plans table holds
  pc,             \* "idle", "awaitPlans", "awaitUser", "awaitProfile", "awaitAuth", "done"
  op,             \* the operation being executed, "none" when idle
  args,           \* the options object fetchPricingPlans was called with
  query,          \* the last backend request built by this call
  userResp,       \* what auth.getUser() answered in this call
  profileQueryIssued, \* whether this call issued the profiles query
  resp,           \* the last backend answer of this call
  result,         \* what the call returned ([kind |-> "pending"] before)
  thrown,         \* TRUE when the call rejected to its caller
  handlerCalls    \* number of handlerApiError invocations in this call

vars == <<variant, db, pc, op, args, query, userResp, profileQueryIssued,
          resp, result, thrown, handlerCalls>>

Pending  == [kind |-> "pending"]
NoQuery  == [kind |-> "none"]
NoResp   == [kind |-> "none"]
NoArgs   == [limit |-> {}, is_featured |-> {}]

Init ==
  /\ variant \in {"A", "B"}
  /\ db \in SUBSET PlanIds
  /\ pc = "idle"
  /\ op = "none"
  /\ args = NoArgs
  /\ query = NoQuery
  /\ userResp = NoResp
  /\ profileQueryIssued = FALSE
  /\ resp = NoResp
  /\ result = Pending
  /\ thrown = FALSE
  /\ handlerCalls = 0

(* ---------------- fetchPricingPlans ---------------- *)
OptionsSet ==
  { [limit |-> l, is_featured |-> f] :
      l \in {{}} \cup {{n} : n \in 0..MaxLimit},
      f \in {{}, {TRUE}, {FALSE}} }

TheOne(s) == CHOOSE x \in s : TRUE

\* variant A: `limit = 1000` default parameter
LimitDefault_A(l) == IF l = {} THEN DefaultLimit ELSE TheOne(l)
\* variant A: `is_featured = false` default parameter; the result is what
\* `typeof is_featured === 'boolean'` sees
FeaturedDefault_A(f) == IF f = {} THEN {FALSE} ELSE f
\* variant B: `limit ??= 1000`
LimitDefault_B(l) == IF l = {} THEN DefaultLimit ELSE TheOne(l)
\* variant B: `is_featured ??= false`
FeaturedDefault_B(f) == IF f = {} THEN {FALSE} ELSE f

SelectPlans_A == {"id", "name", "slug", "description", "cta",
                  "most_popular", "is_featured", "pricing_features"}
SelectPlans_B == {"id", "name", "slug", "price_monthly", "price_yearly",
                  "description", "cta", "most_popular", "is_featured",
                  "pricing_features"}

\* the query variant A builds: filter when is_featured is a boolean,
\* order by name, limit
BuildPlansQuery_A(a) ==
  [ kind   |-> "pricing_plans",
    select |-> SelectPlans_A,
    filter |-> FeaturedDefault_A(a.is_featured),
    order  |-> "name",
    limit  |-> LimitDefault_A(a.limit) ]

\* the query variant B builds: filter when is_featured is a boolean,
\* order by price_monthly, limit
BuildPlansQuery_B(a) ==
  [ kind   |-> "pricing_plans",
    select |-> SelectPlans_B,
    filter |-> FeaturedDefault_B(a.is_featured),
    order  |-> "price_monthly",
    limit  |-> LimitDefault_B(a.limit) ]

\* variant A's map callback
MapPlan_A(plan) ==
  [ id   |-> IF Has(plan, "id") /\ plan.id # "" THEN String(plan.id) ELSE "Unknown",
    name |-> IF Has(plan, "name") /\ plan.name # "" THEN String(plan.name) ELSE "Unknown",
    slug |-> IF Has(plan, "slug") /\ plan.slug # "" THEN String(plan.slug) ELSE "Unknown",
    description |-> IF Has(plan, "description") /\ plan.description # ""
                    THEN plan.description ELSE "No description available",
    cta  |-> IF Has(plan, "cta") /\ plan.cta # "" THEN plan.cta ELSE "No CTA available",
    most_popular |-> IF Has(plan, "most_popular") THEN plan.most_popular ELSE FALSE,
    is_featured  |-> IF Has(plan, "is_featured") THEN plan.is_featured ELSE FALSE,
    pricing_features |-> IF Has(plan, "pricing_features") THEN plan.pricing_features ELSE <<>>,
    price_monthly |-> IF Has(plan, "price_monthly") /\ plan.price_monthly # 0
                      THEN plan.price_monthly ELSE 0,
    price_yearly  |-> IF Has(plan, "price_yearly") /\ plan.price_yearly # 0
                      THEN plan.price_yearly ELSE 0 ]

\* An answer of an awaited backend call: either the promise rejects, or it
\* resolves with {data, error}.
Rejected      == [rejected |-> TRUE, reason |-> Err("rejected")]
Resolved(d, e) == [rejected |-> FALSE, data |-> d, error |-> e]

\* the answers the backend can give to the pricing_plans query q
PlansAnswers(ids, q) ==
  { Resolved(Arr(RunPlansQuery(ids, q)), Null),
    Resolved(Null, Null),
    Resolved(Obj("not-an-array"), Null),
    Resolved(Null, Err("query failed")),
    Rejected }

Outcome(ret, reported, threw) == [ret |-> ret, reported |-> reported, threw |-> threw]

\* variant A, from the await to the return
PlansReturn_A(r) ==
  IF r.rejected THEN Outcome(Arr(<<>>), 1, FALSE)                  \* catch
  ELSE IF r.error.kind # "null" THEN Outcome(Arr(<<>>), 0, FALSE)  \* console.error
  ELSE IF r.data.kind # "array" THEN Outcome(Arr(<<>>), 0, FALSE)
  ELSE Outcome(Arr([k \in 1..Len(r.data.items) |-> MapPlan_A(r.data.items[k])]), 0, FALSE)

\* variant B, from the await to the return
PlansReturn_B(r) ==
  IF r.rejected THEN Outcome(Arr(<<>>), 1, FALSE)                  \* catch
  ELSE IF r.error.kind # "null" THEN Outcome(Arr(<<>>), 1, FALSE)  \* throw error; catch
  ELSE IF r.data.kind \in {"null", "undefined"} THEN Outcome(Arr(<<>>), 0, FALSE)
  ELSE Outcome(r.data, 0, FALSE)                                   \* data ?? []

CallFetchPricingPlans ==
  /\ pc = "idle"
  /\ \E a \in OptionsSet :
       /\ args' = a
       /\ query' = IF variant = "A" THEN BuildPlansQuery_A(a) ELSE BuildPlansQuery_B(a)
  /\ op' = "fetchPricingPlans"
  /\ pc' = "awaitPlans"
  /\ UNCHANGED <<variant, db, userResp, profileQueryIssued, resp, result,
                 thrown, handlerCalls>>

ResolvePricingPlans ==
  /\ pc = "awaitPlans"
  /\ \E r \in PlansAnswers(db, query) :
       LET o == IF variant = "A" THEN PlansReturn_A(r) ELSE PlansReturn_B(r)
       IN  /\ resp' = r
           /\ result' = o.ret
           /\ thrown' = o.threw
           /\ handlerCalls' = handlerCalls + o.reported
  /\ pc' = "done"
  /\ UNCHANGED <<variant, db, op, args, query, userResp, profileQueryIssued>>

(* ---------------- fetchUserProfile ---------------- *)
UserIds == {"u1", "u2"}

\* an answer of auth.getUser(): {data: {user}, error}, or a rejection
UserAnswer(u, e) == [rejected |-> FALSE, user |-> u, error |-> e]

UserAnswers ==
  { UserAnswer({u}, Null) : u \in UserIds }
    \cup { UserAnswer({}, Null), UserAnswer({}, Err("no session")), Rejected }
    \cup { UserAnswer({u}, Err("stale session")) : u \in UserIds }

SelectRel_A == {"id", "name", "slug", "description", "price_monthly", "price_yearly"}
SelectRel_B == {"id", "name", "slug", "price_monthly", "price_yearly"}

\* the profiles query: .eq('id', user.id).single(), with the nested select
BuildProfileQuery_A(uid) ==
  [kind |-> "profiles", select |-> SelectRel_A, id |-> uid, single |-> TRUE]
BuildProfileQuery_B(uid) ==
  [kind |-> "profiles", select |-> SelectRel_B, id |-> uid, single |-> TRUE]

\* the profile row of user uid with joined relation rel; nullable columns
\* are sets with at most one element
ProfileRow(uid, rel) ==
  [ id |-> uid, name |-> uid \o "-name", first_name |-> {}, last_name |-> {"Doe"},
    email |-> uid \o "@example.org", picture |-> {}, is_subscribed |-> (uid = "u1"),
    plan_id |-> {}, stripe_customer_id |-> "cus-" \o uid, pricing_plans |-> rel ]

\* sequences of pairwise different table rows, of length 0..MaxRel
RelSeqs(ids) ==
  UNION { { s \in [1..n -> ids] : \A i, j \in 1..n : i # j => s[i] # s[j] } : n \in 0..MaxRel }

\* the shapes the joined pricing_plans relation can take
Relations(ids, q) ==
  { Null }
    \cup { Obj(Project(PlanRow(i), q.select)) : i \in ids }
    \cup { Arr([k \in 1..Len(s) |-> Obj(Project(PlanRow(s[k]), q.select))]) : s \in RelSeqs(ids) }

\* the answers the backend can give to the profiles query q
ProfileAnswers(ids, q) ==
  { Resolved(Obj(ProfileRow(q.id, rel)), Null) : rel \in Relations(ids, q) }
    \cup { Resolved(Null, Err("no rows")), Resolved(Null, Null), Rejected }

\* the guard with the userError test left out
NoUser_A_NoErrorTest(r) == r.user = {}
\* variant A: `if (userError || !user)`
NoUser_A(r) == r.error.kind # "null" \/ r.user = {}
\* variant B: `if (userError) return null; if (!user) return null`
NoUser_B(r) == IF r.error.kind # "null" THEN TRUE ELSE r.user = {}

\* the guard with the !data test left out
ProfileFailed_A_NoDataTest(r) == r.error.kind # "null"
\* variant A: `if (error || !data)`
ProfileFailed_A(r) == r.error.kind # "null" \/ r.data.kind = "null"
\* variant B: `if (error) {...; return null}; if (!data) return null`
ProfileFailed_B(r) == IF r.error.kind # "null" THEN TRUE ELSE r.data.kind = "null"

\* variant A: Array.isArray(data.pricing_plans) ? data.pricing_plans : [data.pricing_plans]
NormalizePlans_A(rel) == IF rel.kind = "array" THEN rel.items ELSE <<rel>>

\* variant A's map callback over the relation; plan is a row object
MapRel_A(plan) ==
  [ id   |-> String(plan.id),
    name |-> String(plan.name),
    slug |-> String(plan.slug),
    description   |-> IF Has(plan, "description") /\ plan.description # ""
                      THEN plan.description ELSE "No description available",
    price_monthly |-> IF Has(plan, "price_monthly") THEN plan.price_monthly ELSE 0,
    price_yearly  |-> IF Has(plan, "price_yearly") THEN plan.price_yearly ELSE 0 ]

\* variant B's map callback over the relation
MapRel_B(plan) ==
  [ id |-> plan.id, name |-> plan.name, slug |-> plan.slug,
    price_monthly |-> plan.price_monthly, price_yearly |-> plan.price_yearly ]

\* nullable column -> `x ? String(x) : undefined`
OrUndefined(x) == IF x # {} /\ x # {""} THEN x ELSE {}

ShapeProfile_A(data, plans) ==
  [ id |-> String(data.id), name |-> String(data.name),
    first_name |-> OrUndefined(data.first_name),
    last_name  |-> OrUndefined(data.last_name),
    email |-> String(data.email),
    picture |-> OrUndefined(data.picture),
    is_subscribed |-> data.is_subscribed,
    plan_id |-> OrUndefined(data.plan_id),
    stripe_customer_id |-> String(data.stripe_customer_id),
    pricing_plans |-> plans ]

ShapeProfile_B(data, plans) ==
  [ id |-> data.id, name |-> data.name,
    first_name |-> data.first_name, last_name |-> data.last_name,
    email |-> data.email, picture |-> data.picture,
    is_subscribed |-> data.is_subscribed, plan_id |-> data.plan_id,
    stripe_customer_id |-> data.stripe_customer_id,
    pricing_plans |-> plans ]

\* variant A, from the profiles await to the return (inside try/catch)
ProfileReturn_A(r) ==
  IF r.rejected THEN Outcome(Null, 1, FALSE)                        \* catch
  ELSE IF ProfileFailed_A(r) THEN Outcome(Null, 0, FALSE)           \* console.error
  ELSE IF r.data.kind # "object" THEN Outcome(Null, 1, FALSE)       \* TypeError, catch
  ELSE LET pricingPlans == NormalizePlans_A(r.data.fields.pricing_plans)
       IN  IF \E k \in 1..Len(pricingPlans) : pricingPlans[k].kind # "object"
           THEN Outcome(Null, 1, FALSE)                             \* plan.id of null: TypeError, catch
           ELSE Outcome(Obj(ShapeProfile_A(r.data.fields,
                      [k \in 1..Len(pricingPlans) |-> MapRel_A(pricingPlans[k].fields)])), 0, FALSE)

\* variant B, from the profiles await to the return (no try/catch)
ProfileReturn_B(r) ==
  IF r.rejected THEN Outcome(Pending, 0, TRUE)                      \* rejection escapes
  ELSE IF ProfileFailed_B(r) THEN Outcome(Null, 0, FALSE)
  ELSE IF r.data.kind # "object" THEN Outcome(Pending, 0, TRUE)     \* TypeError escapes
  ELSE LET rel == r.data.fields.pricing_plans
       IN  Outcome(Obj(ShapeProfile_B(r.data.fields,
                 IF rel.kind = "array"
                 THEN [k \in 1..Len(rel.items) |-> MapRel_B(rel.items[k].fields)]
                 ELSE <<>>)), 0, FALSE)

CallFetchUserProfile ==
  /\ pc = "idle"
  /\ op' = "fetchUserProfile"
  /\ pc' = "awaitUser"
  /\ UNCHANGED <<variant, db, args, query, userResp, profileQueryIssued, resp,
                 result, thrown, handlerCalls>>

\* auth.getUser() answers; the code runs up to the profiles await or returns
ResolveGetUser ==
  /\ pc = "awaitUser"
  /\ \E r \in UserAnswers :
       /\ userResp' = r
       /\ resp' = r
       /\ IF r.rejected
          THEN /\ pc' = "done"
               /\ IF variant = "A"
                  THEN result' = Null /\ thrown' = FALSE /\ handlerCalls' = handlerCalls + 1
                  ELSE result' = Pending /\ thrown' = TRUE /\ handlerCalls' = handlerCalls
               /\ UNCHANGED <<query, profileQueryIssued>>
          ELSE IF (IF variant = "A" THEN NoUser_A(r) ELSE NoUser_B(r))
          THEN /\ pc' = "done"
               /\ result' = Null
               /\ UNCHANGED <<query, profileQueryIssued, thrown, handlerCalls>>
          ELSE IF r.user = {}                      \* user.id of null: TypeError
          THEN /\ pc' = "done"
               /\ IF variant = "A"
                  THEN result' = Null /\ thrown' = FALSE /\ handlerCalls' = handlerCalls + 1
                  ELSE result' = Pending /\ thrown' = TRUE /\ handlerCalls' = handlerCalls
               /\ UNCHANGED <<query, profileQueryIssued>>
          ELSE /\ pc' = "awaitProfile"
               /\ query' = IF variant = "A" THEN BuildProfileQuery_A(TheOne(r.user))
                                            ELSE BuildProfileQuery_B(TheOne(r.user))
               /\ profileQueryIssued' = TRUE
               /\ UNCHANGED <<result, thrown, handlerCalls>>
  /\ UNCHANGED <<variant, db, op, args>>

ResolveProfileQuery ==
  /\ pc = "awaitProfile"
  /\ \E r \in ProfileAnswers(db, query) :
       LET o == IF variant = "A" THEN ProfileReturn_A(r) ELSE ProfileReturn_B(r)
       IN  /\ resp' = r
           /\ result' = o.ret
           /\ thrown' = o.threw
           /\ handlerCalls' = handlerCalls + o.reported
  /\ pc' = "done"
  /\ UNCHANGED <<variant, db, op, args, query, userResp, profileQueryIssued>>

(* ---------------- loginWithGithub, loginWithLinkedIn, logout ---------------- *)
AuthOps == {"loginWithGithub", "loginWithLinkedIn", "logout"}

\* the answers of auth.signInWithOAuth / auth.signOut: {error}, or a rejection
AuthAnswers == { Resolved(Null, Null), Resolved(Null, Err("auth failed")), Rejected }

\* the auth call each operation issues
AuthRequest_A(o) ==
  IF o = "loginWithGithub"
  THEN [kind |-> "signInWithOAuth", provider |-> "github", redirectTo |-> "origin"]
  ELSE IF o = "loginWithLinkedIn"
  THEN [kind |-> "signInWithOAuth", provider |-> "linkedin", redirectTo |-> "origin"]
  ELSE [kind |-> "signOut"]

AuthRequest_B(o) ==
  IF o = "loginWithGithub"
  THEN [kind |-> "signInWithOAuth", provider |-> "github", redirectTo |-> "auth/callback"]
  ELSE IF o = "loginWithLinkedIn"
  THEN [kind |-> "signInWithOAuth", provider |-> "linkedin_oidc",
        redirectTo |-> "NEXT_SITE_URL" \o "auth/callback"]
  ELSE [kind |-> "signOut"]

\* variant A: return { error }; catch: handlerApiError, return { error }
AuthReturn_A(o, r) ==
  IF r.rejected THEN Outcome(Obj([error |-> r.reason]), 1, FALSE)
  ELSE Outcome(Obj([error |-> r.error]), 0, FALSE)

\* variant B: the logins return nothing; logout returns { error }; the catch
\* blocks call handlerApiError and return nothing
AuthReturn_B(o, r) ==
  IF r.rejected THEN Outcome(Undefined, 1, FALSE)
  ELSE IF o = "logout" THEN Outcome(Obj([error |-> r.error]), 0, FALSE)
  ELSE Outcome(Undefined, 0, FALSE)

CallAuth(o) ==
  /\ pc = "idle"
  /\ op' = o
  /\ query' = IF variant = "A" THEN AuthRequest_A(o) ELSE AuthRequest_B(o)
  /\ pc' = "awaitAuth"
  /\ UNCHANGED <<variant, db, args, userResp, profileQueryIssued, resp, result,
                 thrown, handlerCalls>>

loginWithGithub   == CallAuth("loginWithGithub")
loginWithLinkedIn == CallAuth("loginWithLinkedIn")
logout            == CallAuth("logout")

ResolveAuth ==
  /\ pc = "awaitAuth"
  /\ \E r \in AuthAnswers :
       LET o == IF variant = "A" THEN AuthReturn_A(op, r) ELSE AuthReturn_B(op, r)
       IN  /\ resp' = r
           /\ result' = o.ret
           /\ thrown' = o.threw
           /\ handlerCalls' = handlerCalls + o.reported
  /\ pc' = "done"
  /\ UNCHANGED <<variant, db, op, args, query, userResp, profileQueryIssued>>

(* ---------------- return to the caller ---------------- *)
\* the caller takes the result; the next call starts from fresh locals
Finish ==
  /\ pc = "done"
  /\ pc' = "idle"
  /\ op' = "none"
  /\ args' = NoArgs
  /\ query' = NoQuery
  /\ userResp' = NoResp
  /\ profileQueryIssued' = FALSE
  /\ resp' = NoResp
  /\ result' = Pending
  /\ thrown' = FALSE
  /\ handlerCalls' = 0
  /\ UNCHANGED <<variant, db>>

Next ==
  \/ CallFetchPricingPlans
  \/ ResolvePricingPlans
  \/ CallFetchUserProfile
  \/ ResolveGetUser
  \/ ResolveProfileQuery
  \/ loginWithGithub
  \/ loginWithLinkedIn
  \/ logout
  \/ ResolveAuth
  \/ Finish

Spec == Init /\ [][Next]_vars

(* ======================= properties ======================= *)
Done(o) == pc = "done" /\ op = o

\* the explicit limit of the call, or the default
EffectiveLimit == IF args.limit = {} THEN DefaultLimit ELSE TheOne(args.limit)

\* getUser resolved with a user and without an error
UserResolved ==
  /\ ~userResp.rejected
  /\ userResp.user # {}
  /\ userResp.error.kind = "null"

\* the profiles query resolved with an error or without data
ProfileMissing ==
  /\ profileQueryIssued
  /\ ~resp.rejected
  /\ (resp.error.kind # "null" \/ resp.data.kind = "null")

\* the profiles query resolved with a row and without an error
ProfileFound ==
  /\ profileQueryIssued
  /\ ~resp.rejected
  /\ resp.error.kind = "null"
  /\ resp.data.kind = "object"

\* C1: every operation completes with a returned value; no thrown error
\* ever reaches the caller, whatever the backend collaborators do.
C1_NeverThrows ==
  pc = "done" => (~thrown /\ result # Pending)

\* C2: when the pricing_plans query resolves with a non-null error field,
\* fetchPricingPlans returns an empty sequence and handlerApiError is
\* invoked exactly once during the call.
C2_QueryErrorReportedOnce ==
  (Done("fetchPricingPlans") /\ ~resp.rejected /\ resp.error.kind # "null")
    => (result = Arr(<<>>) /\ handlerCalls = 1)

\* C3: the is_featured equality filter of the issued query is exactly the
\* caller's explicit boolean: none when is_featured is omitted.
C3_OmittedMeansNoFilter ==
  (op = "fetchPricingPlans" /\ pc \in {"awaitPlans", "done"})
    => query.filter = args.is_featured

\* C4: fetchPricingPlans resolves to a sequence (never null, undefined or
\* another value) of at most limit elements (1000 when limit is omitted).
C4_SequenceWithinLimit ==
  Done("fetchPricingPlans")
    => (/\ ~thrown
        /\ result.kind = "array"
        /\ Len(result.items) <= EffectiveLimit)

\* C5: when getUser resolves with an error or without a user,
\* fetchUserProfile returns null, issues no profiles query and does not
\* invoke handlerApiError; the profiles query is issued only after getUser
\* resolved with a user and no error.
C5_NoUserNoQuery ==
  /\ (Done("fetchUserProfile") /\ ~userResp.rejected
        /\ (userResp.error.kind # "null" \/ userResp.user = {}))
       => (result = Null /\ ~thrown /\ ~profileQueryIssued /\ handlerCalls = 0)
  /\ profileQueryIssued => UserResolved

C5_Witness ==
  /\ Done("fetchUserProfile")
  /\ ~userResp.rejected
  /\ userResp.error.kind # "null"
  /\ result = Null
  /\ ~profileQueryIssued

C7_RelationNormalized ==
  (Done("fetchUserProfile") /\ ProfileFound
     /\ resp.data.fields.pricing_plans.kind \in {"object", "array"})
    => LET rel   == resp.data.fields.pricing_plans
           items == IF rel.kind = "array" THEN rel.items ELSE <<rel>>
       IN  /\ result.kind = "object"
           /\ Len(result.fields.pricing_plans) = Len(items)
           /\ \A k \in 1..Len(items) :
                /\ result.fields.pricing_plans[k].id = items[k].fields.id
                /\ result.fields.pricing_plans[k].name = items[k].fields.name
                /\ result.fields.pricing_plans[k].slug = items[k].fields.slug

\* C8: the three auth operations resolve to an outcome object with an error
\* field: null when the collaborator succeeds, the failure when it resolves
\* with an error or throws; never undefined.
C8_AuthOutcome ==
  (pc = "done" /\ op \in AuthOps)
    => /\ result.kind = "object"
       /\ IF ~resp.rejected /\ resp.error.kind = "null"
          THEN result.fields.error = Null
          ELSE result.fields.error.kind = "error"

\* the featured rows the table holds
Featured == {i \in db : PlanRow(i).is_featured}

\* C9: with is_featured = true and limit = k against more than k featured
\* plans, the query orders by monthly price and the caller receives the k
\* lowest-priced featured plans, ascending, each with its actual prices.
C9_CheapestFeatured ==
  (Done("fetchPricingPlans") /\ args.is_featured = {TRUE} /\ args.limit # {}
     /\ ~resp.rejected /\ resp.error.kind = "null" /\ resp.data.kind = "array"
     /\ TheOne(args.limit) >= 1
     /\ Cardinality(Featured) > TheOne(args.limit))
    => LET k == TheOne(args.limit)
       IN  /\ query.order = "price_monthly"
           /\ result.kind = "array"
           /\ Len(result.items) = k
           /\ \E ids \in [1..k -> Featured] :
                /\ \A j \in 1..k :
                     /\ result.items[j].id = PlanRow(ids[j]).id
                     /\ result.items[j].price_monthly = PlanRow(ids[j]).price_monthly
                     /\ result.items[j].price_yearly = PlanRow(ids[j]).price_yearly
                /\ \A i, j \in 1..k :
                     i < j => PlanRow(ids[i]).price_monthly < PlanRow(ids[j]).price_monthly
                /\ \A f \in Featured :
                     (\A j \in 1..k : ids[j] # f)
                       => \A j \in 1..k : PlanRow(ids[j]).price_monthly < PlanRow(f).price_monthly

\* C10: fetchUserProfile returns null only without a user, on a query
\* error or without a row; with a user and a row it returns a Profile with
\* the row's id, and a null relation gives an empty pricing_plans without
\* invoking handlerApiError.
C10_PresentProfile ==
  Done("fetchUserProfile")
    => /\ result = Null
            => (\/ userResp.rejected
                \/ ~UserResolved
                \/ resp.rejected
                \/ ProfileMissing)
       /\ (UserResolved /\ ProfileFound)
            => /\ result.kind = "object"
               /\ result.fields.id = resp.data.fields.id
               /\ resp.data.fields.pricing_plans = Null
                    => (result.fields.pricing_plans = <<>> /\ handlerCalls = 0)

TypeOK == pc \in {"idle", "awaitPlans", "awaitUser", "awaitProfile", "awaitAuth", "done"}
====
